---- MODULE Spec2Model ----
(***************************************************************************)
(* A model of PeRFception's JaxNeRF port:                                  *)
(*   - the NeRF network (constructor and forward pass),                    *)
(*   - the LitJaxNeRF Lightning module (create_model, the lifecycle hooks, *)
(*     the step methods, gather_results),                                  *)
(*   - the ValEveryNSteps callback of run.py.                              *)
(* Tensors are sequences of rows, a row is a sequence of integers; only    *)
(* the last dimension and the row values are modelled.                     *)
(***************************************************************************)
EXTENDS Integers, Sequences, FiniteSets, TLC

VARIABLES
    net,        \* the NeRF instance under test (NetSpec)
    x,          \* the tensor last passed to NeRF.forward
    out,        \* what that call of NeRF.forward produced
    args,                 \* the parsed configuration (LifeSpec)
    model,                \* LitJaxNeRF.model
    model_fine,           \* LitJaxNeRF.model_fine
    render_kwargs_train,  \* LitJaxNeRF.render_kwargs_train
    render_kwargs_test,   \* LitJaxNeRF.render_kwargs_test
    mode,                 \* LitJaxNeRF.mode ("unset" until a hook assigns it)
    inst,                 \* how many LitJaxNeRF instances were constructed
    nextId,               \* the last object identity handed out
    pc,                   \* where the trainer is
    global_step,          \* trainer.global_step
    left,                 \* batches left in the running evaluation loop
    lastForward,          \* the last call of LitJaxNeRF.forward
    lastStep,             \* what the last training_step did
    lastBatchEnd,         \* what the last ValEveryNSteps.on_batch_end did
    world_size,           \* devices taking part in the evaluation (GatherSpec)
    outputs,              \* per device, the step outputs of the running epoch
    result                \* what gather_results returned at the epoch's end

netVars == <<net, x, out>>
moduleVars == <<model, model_fine, render_kwargs_train, render_kwargs_test, inst, nextId>>
lifeVars == <<args, model, model_fine, render_kwargs_train, render_kwargs_test, mode, inst,
              nextId, pc, global_step, left, lastForward, lastStep, lastBatchEnd>>
gatherVars == <<world_size, outputs, result>>
vars == <<netVars, lifeVars, gatherVars>>

----------------------------------------------------------------------------
(* Bounds of the model. *)

MaxD == 5          \* depths 1..MaxD
MaxSkips == 2      \* a skip list holds at most MaxSkips indices
MaxBatch == 2      \* rows of a batch

Widths == {1, 2}
InputChs == {1, 2}
InputChViews == {0, 1}
OutputChs == {4, 5}          \* create_model: 5 if num_fine_samples > 0 else 4
\* identities already handed out when a network is built; the parameters of
\* a layer depend on its identity
Bases == 0 .. 2
SkipSets == {s \in SUBSET (0 .. MaxD - 1) : Cardinality(s) <= MaxSkips}

----------------------------------------------------------------------------
(* Tensors. *)

None == [none |-> TRUE]

LastDim(t) == Len(t[1])

\* torch.cat([a, b], -1)
Cat(a, b) == [r \in 1 .. Len(a) |-> a[r] \o b[r]]

\* F.relu
Relu(t) == [r \in 1 .. Len(t) |-> [k \in 1 .. Len(t[r]) |-> IF t[r][k] > 0 THEN t[r][k] ELSE 0]]

----------------------------------------------------------------------------
(* nn.Linear: an object with an identity, an input and an output width.    *)
(* Its parameters are a fixed function of the identity.                    *)

Linear(id, inf, outf) == [id |-> id, in_features |-> inf, out_features |-> outf]

Weight(l, j, k) == ((l.id * 3 + j * 5 + k * 7) % 5) - 2

Bias(l, j) == ((l.id + j) % 3) - 1

RECURSIVE Dot(_, _, _, _)
Dot(l, j, row, k) ==
    IF k = 0 THEN 0 ELSE Weight(l, j, k) * row[k] + Dot(l, j, row, k - 1)

\* l(t) for a tensor whose last dimension is l.in_features
LinearApply(l, t) ==
    [r \in 1 .. Len(t) |->
        [j \in 1 .. l.out_features |-> Bias(l, j) + Dot(l, j, t[r], l.in_features)]]

----------------------------------------------------------------------------
(* NeRF.__init__: the layers get the identities base + 1, base + 2, ...    *)

pts_linears(D, W, input_ch, skips, base) ==
    [n \in 1 .. (IF D >= 1 THEN D ELSE 1) |->
        IF n = 1
        THEN Linear(base + 1, input_ch, W)
        ELSE Linear(base + n, IF (n - 2) \in skips THEN W + input_ch ELSE W, W)]

NeRF(D, W, input_ch, input_ch_views, output_ch, skips, use_viewdirs, base) ==
    LET pts == pts_linears(D, W, input_ch, skips, base)
        b == base + Len(pts)
    IN  [D |-> D, W |-> W, input_ch |-> input_ch, input_ch_views |-> input_ch_views,
         output_ch |-> output_ch, skips |-> skips, use_viewdirs |-> use_viewdirs,
         pts_linears |-> pts,
         views_linears |-> <<Linear(b + 1, input_ch_views + W, W \div 2)>>,
         feature_linear |-> IF use_viewdirs THEN Linear(b + 2, W, W) ELSE None,
         alpha_linear |-> IF use_viewdirs THEN Linear(b + 3, W, 1) ELSE None,
         rgb_linear |-> IF use_viewdirs THEN Linear(b + 4, W \div 2, 3) ELSE None,
         output_linear |-> IF use_viewdirs THEN None ELSE Linear(b + 2, W, output_ch),
         nextId |-> IF use_viewdirs THEN b + 4 ELSE b + 2]

----------------------------------------------------------------------------
(* NeRF.forward.  A call either raises (raised = TRUE, at names the place)  *)
(* or returns outputs.  calls lists, in order, every layer invoked with    *)
(* the width it was built for and the width of the tensor it was given.    *)

Call(name, l, t) == [layer |-> name, id |-> l.id, built |-> l.in_features, got |-> LastDim(t)]

Raised(at, calls) == [raised |-> TRUE, at |-> at, outputs |-> <<>>, calls |-> calls]

Returned(o, calls) == [raised |-> FALSE, at |-> "", outputs |-> o, calls |-> calls]

\* a variant of split that slices instead of checking the sizes
splitSlicing(t, sizes) ==
    [raised |-> FALSE,
     parts |-> << [r \in 1 .. Len(t) |-> [k \in 1 .. sizes[1] |->
                        IF k <= Len(t[r]) THEN t[r][k] ELSE 0]],
                  [r \in 1 .. Len(t) |-> [k \in 1 .. sizes[2] |->
                        IF sizes[1] + k <= Len(t[r]) THEN t[r][sizes[1] + k] ELSE 0]] >>]

\* torch.split(t, sizes, dim=-1) with a list of two sizes: the sizes must sum
\* to the size of the dimension
split(t, sizes) ==
    IF sizes[1] + sizes[2] # LastDim(t)
    THEN [raised |-> TRUE, parts |-> <<>>]
    ELSE [raised |-> FALSE,
          parts |-> << [r \in 1 .. Len(t) |-> SubSeq(t[r], 1, sizes[1])],
                       [r \in 1 .. Len(t) |-> SubSeq(t[r], sizes[1] + 1, sizes[1] + sizes[2])] >>]

\* Each intermediate tensor is bound once it is computed: v \in {e} names
\* the value of e, and CHOOSE takes the one element of the resulting set.

\* the loop over pts_linears, from the layer of (0-based) index i
RECURSIVE trunk(_, _, _, _, _)
trunk(n, input_pts, h, i, calls) ==
    IF i = Len(n.pts_linears)
    THEN [raised |-> FALSE, h |-> h, calls |-> calls]
    ELSE LET l == n.pts_linears[i + 1]
             cs == Append(calls, Call("pts_linears", l, h))
         IN  IF LastDim(h) # l.in_features
             THEN [raised |-> TRUE, h |-> h, calls |-> cs]
             ELSE CHOOSE res \in
                    { trunk(n, input_pts,
                            IF i \in n.skips THEN Cat(input_pts, h1) ELSE h1, i + 1, c)
                      : h1 \in {Relu(LinearApply(l, h))}, c \in {cs} } : TRUE

\* the view-dependent branch with the two halves of the output exchanged
viewHeadsSwapped(n, h, input_views, calls) ==
    LET c1 == Append(calls, Call("alpha_linear", n.alpha_linear, h))
        c2 == Append(c1, Call("feature_linear", n.feature_linear, h))
    IN  IF LastDim(h) # n.alpha_linear.in_features THEN Raised("alpha_linear", c1)
        ELSE IF LastDim(h) # n.feature_linear.in_features THEN Raised("feature_linear", c2)
        ELSE CHOOSE res \in
                { LET vl == n.views_linears[1]
                      c3 == Append(c2, Call("views_linears", vl, hv))
                  IN  IF LastDim(hv) # vl.in_features THEN Raised("views_linears", c3)
                      ELSE CHOOSE r \in
                            { LET c4 == Append(c3, Call("rgb_linear", n.rgb_linear, h3))
                              IN  IF LastDim(h3) # n.rgb_linear.in_features
                                  THEN Raised("rgb_linear", c4)
                                  ELSE Returned(Cat(alpha, LinearApply(n.rgb_linear, h3)), c4)
                              : h3 \in {Relu(LinearApply(vl, hv))} } : TRUE
                  : alpha \in {LinearApply(n.alpha_linear, h)},
                    hv \in {Cat(LinearApply(n.feature_linear, h), input_views)} } : TRUE

\* the branch taken when use_viewdirs is set
viewHeads(n, h, input_views, calls) ==
    LET c1 == Append(calls, Call("alpha_linear", n.alpha_linear, h))
        c2 == Append(c1, Call("feature_linear", n.feature_linear, h))
    IN  IF LastDim(h) # n.alpha_linear.in_features THEN Raised("alpha_linear", c1)
        ELSE IF LastDim(h) # n.feature_linear.in_features THEN Raised("feature_linear", c2)
        ELSE CHOOSE res \in
                { LET vl == n.views_linears[1]
                      c3 == Append(c2, Call("views_linears", vl, hv))
                  IN  IF LastDim(hv) # vl.in_features THEN Raised("views_linears", c3)
                      ELSE CHOOSE r \in
                            { LET c4 == Append(c3, Call("rgb_linear", n.rgb_linear, h3))
                              IN  IF LastDim(h3) # n.rgb_linear.in_features
                                  THEN Raised("rgb_linear", c4)
                                  ELSE Returned(Cat(LinearApply(n.rgb_linear, h3), alpha), c4)
                              : h3 \in {Relu(LinearApply(vl, hv))} } : TRUE
                  : alpha \in {LinearApply(n.alpha_linear, h)},
                    hv \in {Cat(LinearApply(n.feature_linear, h), input_views)} } : TRUE

\* the branch taken otherwise
pointHead(n, h, calls) ==
    LET c1 == Append(calls, Call("output_linear", n.output_linear, h))
    IN  IF LastDim(h) # n.output_linear.in_features
        THEN Raised("output_linear", c1)
        ELSE Returned(LinearApply(n.output_linear, h), c1)

forward(n, t) ==
    CHOOSE res \in
        { IF sp.raised THEN Raised("split", <<>>)
          ELSE CHOOSE r \in
                { IF tr.raised THEN Raised("pts_linears", tr.calls)
                  ELSE IF n.use_viewdirs
                       THEN viewHeads(n, tr.h, sp.parts[2], tr.calls)
                       ELSE pointHead(n, tr.h, tr.calls)
                  : tr \in {trunk(n, sp.parts[1], sp.parts[1], 0, <<>>)} } : TRUE
          : sp \in {split(t, <<n.input_ch, n.input_ch_views>>)} } : TRUE

----------------------------------------------------------------------------
(* The network specification: build a network, then run forward on         *)
(* batches.  The rows of a batch agree on their first agree channels and   *)
(* differ in the others.                                                   *)

\* input tensors have up to one channel more than any network takes
Channels == 0 .. 4

Batch(B, c, agree) ==
    [r \in 1 .. B |-> [k \in 1 .. c |-> IF k <= agree THEN k % 3 ELSE (k + r) % 3]]

NetIdle ==
    /\ net = None
    /\ x = <<>>
    /\ out = None

LifeIdle ==
    /\ args = None
    /\ model = None
    /\ model_fine = None
    /\ render_kwargs_train = None
    /\ render_kwargs_test = None
    /\ mode = "unset"
    /\ inst = 0
    /\ nextId = 0
    /\ pc = "off"
    /\ global_step = 0
    /\ left = 0
    /\ lastForward = None
    /\ lastStep = None
    /\ lastBatchEnd = None

GatherIdle ==
    /\ world_size = 0
    /\ outputs = <<>>
    /\ result = None

NetInit == NetIdle /\ LifeIdle /\ GatherIdle

Construct ==
    /\ net = None
    /\ \E D \in 1 .. MaxD, W \in Widths, input_ch \in InputChs,
          input_ch_views \in InputChViews, output_ch \in OutputChs,
          skips \in SkipSets, use_viewdirs \in BOOLEAN, base \in Bases :
            net' = NeRF(D, W, input_ch, input_ch_views, output_ch, skips, use_viewdirs, base)
    /\ UNCHANGED <<x, out, lifeVars, gatherVars>>

Forward ==
    /\ net # None
    /\ out = None
    /\ \E B \in 1 .. MaxBatch, c \in Channels, agree \in Channels :
        /\ agree <= c
        /\ x' = Batch(B, c, agree)
        /\ out' = forward(net, x')
    /\ UNCHANGED <<net, lifeVars, gatherVars>>

\* the caller drops the batch and its outputs before it queries the next one
NextChunk ==
    /\ out # None
    /\ x' = <<>>
    /\ out' = None
    /\ UNCHANGED <<net, lifeVars, gatherVars>>

NetNext == Construct \/ Forward \/ NextChunk

NetSpec == NetInit /\ [][NetNext]_vars

----------------------------------------------------------------------------
(* Claims about the network, checked under NetSpec. *)

Called == net # None /\ out # None

WellFormed == LastDim(x) = net.input_ch + net.input_ch_views

Shape(res) == IF res.raised THEN <<"raised">> ELSE <<Len(res.outputs), LastDim(res.outputs)>>

WithoutSkips(n) ==
    NeRF(n.D, n.W, n.input_ch, n.input_ch_views, n.output_ch, {}, n.use_viewdirs, 0)

\* C4: for a well-formed batch, forward returns a tensor of shape
\* [batch, output_ch] for every depth, skip set, use_viewdirs and output_ch,
\* and the same shape as the network built without skips returns.
C4_OutputShape ==
    (Called /\ WellFormed) =>
        /\ ~out.raised
        /\ Shape(out) = <<Len(x), net.output_ch>>
        /\ Shape(out) = Shape(forward(WithoutSkips(net), x))

\* C6: a batch whose last dimension differs from input_ch + input_ch_views
\* makes forward raise at the split, before any layer is invoked and
\* without any output.
C6_MalformedInputRaises ==
    (Called /\ ~WellFormed) =>
        /\ out.raised
        /\ out.at = "split"
        /\ out.calls = <<>>
        /\ out.outputs = <<>>

\* C6 witness: forward was called with more channels than configured, on a
\* network that accepts a well-formed batch, and raised at the split.
C6_Witness ==
    /\ Called
    /\ LastDim(x) > net.input_ch + net.input_ch_views
    /\ (net.D - 1) \notin net.skips
    /\ out.raised
    /\ out.at = "split"

\* C7: for a well-formed batch every layer forward invokes is given a tensor
\* of the width it was built for, all D trunk layers are invoked, and the
\* trunk layer that follows a skip index is the one built with W + input_ch.
C7_WidthsAgree ==
    (Called /\ WellFormed) =>
        /\ \A i \in 1 .. Len(out.calls) : out.calls[i].got = out.calls[i].built
        /\ Len(out.calls) > net.D
        /\ \A i \in 1 .. Len(out.calls) - 1 :
              (out.calls[i].layer = "pts_linears" /\ (i - 1) \in net.skips)
                  => out.calls[i + 1].built = net.W + net.input_ch

SamePoints(r1, r2) == SubSeq(x[r1], 1, net.input_ch) = SubSeq(x[r2], 1, net.input_ch)

\* C9: two rows of a batch with the same encoded-point channels get the same
\* density (the last of 4 channels) when use_viewdirs is set, and the same
\* whole output row otherwise, whatever their encoded-view channels are.
C9_DensityIgnoresViews ==
    (Called /\ ~out.raised) =>
        \A r1, r2 \in 1 .. Len(x) :
            SamePoints(r1, r2) =>
                IF net.use_viewdirs
                THEN /\ Len(out.outputs[r1]) = 4
                     /\ out.outputs[r1][4] = out.outputs[r2][4]
                ELSE out.outputs[r1] = out.outputs[r2]

\* C9 witness: a view-dependent network returned different colours for two
\* rows that share their point channels and differ in their view channels.
C9_Witness ==
    /\ Called
    /\ ~out.raised
    /\ net.use_viewdirs
    /\ \E r1, r2 \in 1 .. Len(x) :
        /\ SamePoints(r1, r2)
        /\ x[r1] # x[r2]
        /\ SubSeq(out.outputs[r1], 1, 3) # SubSeq(out.outputs[r2], 1, 3)

----------------------------------------------------------------------------
(* LitJaxNeRF.create_model. *)

\* embedder.get_embedder(multires, i_embed) -> (embed_fn, out_dim)
get_embedder(multires, i_embed) ==
    [fn |-> <<"embed", multires, i_embed>>, out_dim |-> 3 + 6 * multires]

\* the option dictionary built at lines 138-150, with the two keys of
\* lines 153-155 when the scene is not rendered in NDC
TrainOptions(a, near, far, network_query_fn, m, mf) ==
    IF a.dataset_type # "llff" \/ a.no_ndc
    THEN [network_query_fn |-> network_query_fn, perturb |-> a.perturb,
          num_fine_samples |-> a.num_fine_samples, network_fine |-> mf,
          num_coarse_samples |-> a.num_coarse_samples, network_fn |-> m,
          use_viewdirs |-> a.use_viewdirs, white_bkgd |-> a.white_bkgd,
          raw_noise_std |-> a.raw_noise_std, near |-> near, far |-> far,
          ndc |-> FALSE, lindisp |-> a.lindisp]
    ELSE [network_query_fn |-> network_query_fn, perturb |-> a.perturb,
          num_fine_samples |-> a.num_fine_samples, network_fine |-> mf,
          num_coarse_samples |-> a.num_coarse_samples, network_fn |-> m,
          use_viewdirs |-> a.use_viewdirs, white_bkgd |-> a.white_bkgd,
          raw_noise_std |-> a.raw_noise_std, near |-> near, far |-> far]

\* a variant in which the fine network is the coarse one
NetworksShared(a, base) ==
    LET e == get_embedder(a.multires, a.i_embed)
        input_ch_views == IF a.use_viewdirs
                          THEN get_embedder(a.multires_views, a.i_embed).out_dim
                          ELSE 0
        output_ch == IF a.num_fine_samples > 0 THEN 5 ELSE 4
        skips == {4}
        m == NeRF(a.netdepth, a.netwidth, e.out_dim, input_ch_views, output_ch, skips,
                  a.use_viewdirs, base)
    IN  [model |-> m,
         model_fine |-> IF a.num_fine_samples > 0 THEN m ELSE None,
         network_query_fn |->
            [embed_fn |-> e.fn,
             embeddirs_fn |-> IF a.use_viewdirs
                              THEN get_embedder(a.multires_views, a.i_embed).fn
                              ELSE None,
             netchunk |-> a.netchunk]]

\* lines 105-136: the two networks and the query closure
Networks(a, base) ==
    LET e == get_embedder(a.multires, a.i_embed)
        input_ch_views == IF a.use_viewdirs
                          THEN get_embedder(a.multires_views, a.i_embed).out_dim
                          ELSE 0
        output_ch == IF a.num_fine_samples > 0 THEN 5 ELSE 4
        skips == {4}
        m == NeRF(a.netdepth, a.netwidth, e.out_dim, input_ch_views, output_ch, skips,
                  a.use_viewdirs, base)
    IN  [model |-> m,
         model_fine |-> IF a.num_fine_samples > 0
                        THEN NeRF(a.netdepth_fine, a.netwidth_fine, e.out_dim, input_ch_views,
                                  output_ch, skips, a.use_viewdirs, m.nextId)
                        ELSE None,
         network_query_fn |->
            [embed_fn |-> e.fn,
             embeddirs_fn |-> IF a.use_viewdirs
                              THEN get_embedder(a.multires_views, a.i_embed).fn
                              ELSE None,
             netchunk |-> a.netchunk]]

\* a variant in which render_kwargs_test is the same dictionary as
\* render_kwargs_train, so that the two assignments change both
create_modelAliased(a, near, far, base) ==
    LET n == Networks(a, base)
        train == TrainOptions(a, near, far, n.network_query_fn, n.model, n.model_fine)
        test == [train EXCEPT !.perturb = FALSE, !.raw_noise_std = 0]
    IN  [model |-> n.model, model_fine |-> n.model_fine,
         render_kwargs_train |-> test, render_kwargs_test |-> test,
         nextId |-> IF n.model_fine = None THEN n.model.nextId ELSE n.model_fine.nextId]

create_model(a, near, far, base) ==
    LET n == Networks(a, base)
        train == TrainOptions(a, near, far, n.network_query_fn, n.model, n.model_fine)
        test == [train EXCEPT !.perturb = FALSE, !.raw_noise_std = 0]
    IN  [model |-> n.model, model_fine |-> n.model_fine,
         render_kwargs_train |-> train, render_kwargs_test |-> test,
         nextId |-> IF n.model_fine = None THEN n.model.nextId ELSE n.model_fine.nextId]

----------------------------------------------------------------------------
(* LitJaxNeRF.forward and the step methods. *)

\* utils.render(..., **kwargs): the auxiliary bundle holds the coarse pass's
\* colours when a fine pass exists
render(kwargs) ==
    [extras |-> IF kwargs.num_fine_samples > 0 THEN {"rgb0"} ELSE {}]

LitJaxNeRF_forward(md, train, test, caller) ==
    IF md = "unset"
    THEN [caller |-> caller, raised |-> TRUE, dict |-> "", kwargs |-> None, extras |-> {},
          train |-> train]
    ELSE LET kwargs == IF md = "train" THEN train ELSE test
         IN  [caller |-> caller, raised |-> FALSE, train |-> train,
              dict |-> IF md = "train" THEN "render_kwargs_train" ELSE "render_kwargs_test",
              kwargs |-> kwargs, extras |-> render(kwargs).extras]

\* training_step, given the call of forward it made and the two squared
\* errors utils.img2mse computes
training_step(fw, img_loss, mse0) ==
    IF fw.raised
    THEN [raised |-> TRUE, rgb0 |-> FALSE, img_loss |-> img_loss, loss0 |-> 0, loss |-> 0,
          logged |-> {}]
    ELSE IF "rgb0" \in fw.extras
    THEN [raised |-> FALSE, rgb0 |-> TRUE, img_loss |-> img_loss, loss0 |-> mse0,
          loss |-> img_loss + mse0,
          logged |-> {"train/psnr1", "train/psnr0", "train/loss"}]
    ELSE \* psnr0 is unbound at line 205
         [raised |-> TRUE, rgb0 |-> FALSE, img_loss |-> img_loss, loss0 |-> 0, loss |-> 0,
          logged |-> {"train/psnr1"}]

\* a variant without the test for step 0
ShouldValidateAtZero(step, every_n_step) == step % every_n_step = 0

\* ValEveryNSteps.on_batch_end's condition
ShouldValidate(step, every_n_step) == step % every_n_step = 0 /\ step # 0

----------------------------------------------------------------------------
(* The lifecycle specification: run.py drives one LitJaxNeRF through        *)
(* trainer.fit and trainer.test.  The trainer calls the hooks in           *)
(* Lightning's order: an optional sanity validation, on_train_start, then  *)
(* per batch training_step, the optimizer, the callbacks' on_batch_end and *)
(* the increment of global_step.                                           *)

MaxSteps == 4      \* args.max_steps
MaxEvery == 2      \* args.i_validation ranges over 1..MaxEvery
EvalBatches == 2   \* batches of a validation or test loop
MaxLoss == 2       \* squared errors range over 1..MaxLoss

Near == 2
Far == 6

Args ==
    [perturb : BOOLEAN, raw_noise_std : {0, 1}, num_fine_samples : {0, 2},
     use_viewdirs : BOOLEAN, dataset_type : {"llff", "blender"}, no_ndc : BOOLEAN,
     i_validation : 1 .. MaxEvery, train : BOOLEAN, eval : BOOLEAN, debug : BOOLEAN,
     lindisp : {FALSE}, white_bkgd : {TRUE}, num_coarse_samples : {2},
     netdepth : {2}, netwidth : {2}, netdepth_fine : {2}, netwidth_fine : {2},
     multires : {0}, multires_views : {0}, i_embed : {0}, netchunk : {4},
     max_steps : {MaxSteps}]

\* LitJaxNeRF.__init__
Construct_LitJaxNeRF(a) ==
    LET c == create_model(a, Near, Far, nextId)
    IN  /\ model' = c.model
        /\ model_fine' = c.model_fine
        /\ render_kwargs_train' = c.render_kwargs_train
        /\ render_kwargs_test' = c.render_kwargs_test
        /\ nextId' = c.nextId
        /\ inst' = inst + 1

LifeInit ==
    /\ NetIdle
    /\ GatherIdle
    /\ args \in Args
    /\ LET c == create_model(args, Near, Far, 0)
       IN  /\ model = c.model
           /\ model_fine = c.model_fine
           /\ render_kwargs_train = c.render_kwargs_train
           /\ render_kwargs_test = c.render_kwargs_test
           /\ nextId = c.nextId
    /\ inst = 1
    /\ mode = "unset"
    /\ pc = "start"
    /\ global_step = 0
    /\ left = 0
    /\ lastForward = None
    /\ lastStep = None
    /\ lastBatchEnd = None

on_train_start == mode' = "train"

on_validation_start == mode' = "val"

on_test_start == mode' = "test"

\* trainer.fit with num_sanity_val_steps = -1: a validation loop comes first
SanityCheckStart ==
    /\ pc = "start"
    /\ args.train /\ args.debug
    /\ on_validation_start
    /\ pc' = "sanity"
    /\ left' = EvalBatches
    /\ UNCHANGED <<netVars, gatherVars, args, moduleVars, global_step, lastForward, lastStep, lastBatchEnd>>

TrainStart ==
    /\ \/ pc = "start" /\ args.train /\ ~args.debug
       \/ pc = "sanity_done"
    /\ on_train_start
    /\ pc' = "train"
    /\ UNCHANGED <<netVars, gatherVars, args, moduleVars, global_step, left, lastForward, lastStep,
                   lastBatchEnd>>

TrainingStep ==
    /\ pc = "train"
    /\ \E img_loss \in 1 .. MaxLoss, mse0 \in 1 .. MaxLoss :
        /\ lastForward' = LitJaxNeRF_forward(mode, render_kwargs_train, render_kwargs_test,
                                             "training_step")
        /\ lastStep' = training_step(lastForward', img_loss, mse0)
    /\ pc' = IF lastStep'.raised THEN "crashed" ELSE "batch_end"
    /\ UNCHANGED <<netVars, gatherVars, args, moduleVars, mode, global_step, left, lastBatchEnd>>

\* ValEveryNSteps.on_batch_end; run_evaluation(test_mode=False) enters the
\* validation loop, which starts with on_validation_start
OnBatchEnd ==
    /\ pc = "batch_end"
    /\ IF ShouldValidate(global_step, args.i_validation)
       THEN /\ lastBatchEnd' = [step |-> global_step, started |-> 1, test_mode |-> FALSE]
            /\ on_validation_start
            /\ pc' = "val"
            /\ left' = EvalBatches
       ELSE /\ lastBatchEnd' = [step |-> global_step, started |-> 0, test_mode |-> FALSE]
            /\ pc' = "advance"
            /\ UNCHANGED <<mode, left>>
    /\ UNCHANGED <<netVars, gatherVars, args, moduleVars, global_step, lastForward, lastStep>>

ValidationStep ==
    /\ pc \in {"sanity", "val"}
    /\ left > 0
    /\ lastForward' = LitJaxNeRF_forward(mode, render_kwargs_train, render_kwargs_test,
                                         "validation_step")
    /\ left' = left - 1
    /\ UNCHANGED <<netVars, gatherVars, args, moduleVars, mode, pc, global_step, lastStep, lastBatchEnd>>

\* the validation loop ends; a loop run_evaluation started returns into
\* on_batch_end, which returns to the training loop
ValidationEpochEnd ==
    /\ pc \in {"sanity", "val"}
    /\ left = 0
    /\ pc' = IF pc = "sanity" THEN "sanity_done" ELSE "advance"
    /\ UNCHANGED <<netVars, gatherVars, args, moduleVars, mode, global_step, left, lastForward, lastStep,
                   lastBatchEnd>>

\* the training loop counts the batch and stops at max_steps
Advance ==
    /\ pc = "advance"
    /\ global_step' = global_step + 1
    /\ pc' = IF global_step' >= args.max_steps THEN "fit_done" ELSE "train"
    /\ UNCHANGED <<netVars, gatherVars, args, moduleVars, mode, left, lastForward, lastStep, lastBatchEnd>>

\* run.py, args.eval: a new LitJaxNeRF is built from the checkpoint
LoadFromCheckpoint ==
    /\ \/ pc = "start" /\ ~args.train
       \/ pc = "fit_done"
    /\ args.eval
    /\ Construct_LitJaxNeRF(args)
    /\ mode' = "unset"
    /\ pc' = "loaded"
    /\ UNCHANGED <<netVars, gatherVars, args, global_step, left, lastForward, lastStep, lastBatchEnd>>

TestStart ==
    /\ pc = "loaded"
    /\ on_test_start
    /\ pc' = "test"
    /\ left' = EvalBatches
    /\ UNCHANGED <<netVars, gatherVars, args, moduleVars, global_step, lastForward, lastStep, lastBatchEnd>>

TestStep ==
    /\ pc = "test"
    /\ left > 0
    /\ lastForward' = LitJaxNeRF_forward(mode, render_kwargs_train, render_kwargs_test,
                                         "test_step")
    /\ left' = left - 1
    /\ UNCHANGED <<netVars, gatherVars, args, moduleVars, mode, pc, global_step, lastStep, lastBatchEnd>>

TestEpochEnd ==
    /\ pc = "test"
    /\ left = 0
    /\ pc' = "done"
    /\ UNCHANGED <<netVars, gatherVars, args, moduleVars, mode, global_step, left, lastForward, lastStep,
                   lastBatchEnd>>

LifeNext ==
    \/ SanityCheckStart
    \/ TrainStart
    \/ TrainingStep
    \/ OnBatchEnd
    \/ ValidationStep
    \/ ValidationEpochEnd
    \/ Advance
    \/ LoadFromCheckpoint
    \/ TestStart
    \/ TestStep
    \/ TestEpochEnd

LifeSpec == LifeInit /\ [][LifeNext]_vars

----------------------------------------------------------------------------
(* Claims about the lifecycle, checked under LifeSpec. *)

\* C1: every call of forward made by training_step uses render_kwargs_train,
\* with perturb = args.perturb and raw_noise_std = args.raw_noise_std.
C1_TrainingUsesTrainOptions ==
    (lastForward # None /\ lastForward.caller = "training_step") =>
        /\ ~lastForward.raised
        /\ lastForward.dict = "render_kwargs_train"
        /\ lastForward.kwargs.perturb = args.perturb
        /\ lastForward.kwargs.raw_noise_std = args.raw_noise_std

EvalCall == lastForward # None /\ lastForward.caller \in {"validation_step", "test_step"}

\* C2: every call of forward made by validation_step or test_step passes
\* perturb = False and raw_noise_std = 0, passes every other option with the
\* value render_kwargs_train holds, and render_kwargs_train still holds the
\* configured perturb and raw_noise_std.
C2_EvalDeterministic ==
    EvalCall =>
        /\ ~lastForward.raised
        /\ lastForward.kwargs.perturb = FALSE
        /\ lastForward.kwargs.raw_noise_std = 0
        /\ DOMAIN lastForward.kwargs = DOMAIN lastForward.train
        /\ \A k \in DOMAIN lastForward.train \ {"perturb", "raw_noise_std"} :
              lastForward.kwargs[k] = lastForward.train[k]
        /\ lastForward.train.perturb = args.perturb
        /\ lastForward.train.raw_noise_std = args.raw_noise_std

\* C2 witness: a validation step that runs in the middle of training with
\* perturbation and noise configured, and with the ndc and lindisp options.
C2_Witness ==
    /\ EvalCall
    /\ pc = "val"
    /\ global_step > 0
    /\ args.perturb
    /\ args.raw_noise_std = 1
    /\ "ndc" \in DOMAIN lastForward.kwargs
    /\ lastForward.caller = "validation_step"

Layers(n) ==
    {n.pts_linears[i] : i \in 1 .. Len(n.pts_linears)}
        \cup {n.views_linears[1]}
        \cup ({n.feature_linear, n.alpha_linear, n.rgb_linear, n.output_linear} \ {None})

LayerIds(n) == {l.id : l \in Layers(n)}

NetworksIndependent ==
    /\ model # None
    /\ (model_fine # None) <=> (args.num_fine_samples > 0)
    /\ model_fine # None =>
        /\ model_fine # model
        /\ LayerIds(model) \cap LayerIds(model_fine) = {}
        /\ Cardinality(LayerIds(model)) = Cardinality(Layers(model))
        /\ Cardinality(LayerIds(model_fine)) = Cardinality(Layers(model_fine))
    /\ render_kwargs_train.network_fn = model
    /\ render_kwargs_train.network_fine = model_fine
    /\ render_kwargs_test.network_fn = model
    /\ render_kwargs_test.network_fine = model_fine

NetworksKept == (inst' = inst) => UNCHANGED <<model, model_fine>>

\* C5: the coarse network always exists, the fine one exists iff
\* num_fine_samples > 0, the two share no layer, both option dictionaries
\* refer to these two objects, and no hook or step of one LitJaxNeRF
\* instance replaces them.
C5_NetworksIndependent == []NetworksIndependent /\ [][NetworksKept]_vars

\* C5 witness: a run with a fine network that trained, validated and tested.
C5_Witness ==
    /\ pc = "done"
    /\ model_fine # None
    /\ global_step = MaxSteps
    /\ lastBatchEnd # None
    /\ inst = 2

\* C8: training_step returns a loss for every batch without raising:
\* img_loss + loss0 when extras holds rgb0, img_loss alone otherwise, and
\* logs all three values.
C8_TrainingStepReturnsLoss ==
    lastStep # None =>
        /\ ~lastStep.raised
        /\ lastStep.loss = IF lastStep.rgb0
                           THEN lastStep.img_loss + lastStep.loss0
                           ELSE lastStep.img_loss
        /\ lastStep.logged = {"train/psnr1", "train/psnr0", "train/loss"}

\* C10: on_batch_end starts an evaluation iff global_step is a non-zero
\* multiple of every_n_step, starts one evaluation then and none otherwise,
\* and the evaluation is a validation (test_mode = False).
C10_ValidatesOnMultiples ==
    lastBatchEnd # None =>
        /\ lastBatchEnd.started \in {0, 1}
        /\ (lastBatchEnd.started = 1) <=>
              /\ lastBatchEnd.step # 0
              /\ \E m \in 1 .. MaxSteps : lastBatchEnd.step = m * args.i_validation
        /\ lastBatchEnd.test_mode = FALSE
        /\ pc = "val" => mode = "val"

\* C10 witness: on_batch_end started a validation at the second multiple of
\* every_n_step, after it had let step 0 pass.
C10_Witness ==
    /\ lastBatchEnd # None
    /\ lastBatchEnd.started = 1
    /\ lastBatchEnd.step = 2 * args.i_validation
    /\ pc = "val"
    /\ mode = "val"

----------------------------------------------------------------------------
(* gather_results.  Every device holds, per evaluation step, the dictionary *)
(* render_rays returned for its shard: rows of rgb, target and depth.  A   *)
(* row carries the step, the device and its index in the shard.            *)

MaxDevices == 2     \* world sizes 1..MaxDevices
MaxGatherSteps == 3 \* evaluation steps of an epoch
MaxRows == 2        \* rows of one shard of one step

RECURSIVE Concat(_)
\* torch.cat of a sequence of tensors along the first dimension
Concat(ts) == IF ts = <<>> THEN <<>> ELSE Head(ts) \o Concat(Tail(ts))

\* what render_rays returns on device d at step s for a shard of B rows
ShardOutput(s, d, B) ==
    [rgb |-> [r \in 1 .. B |-> <<"rgb", s, d, r>>],
     depth |-> [r \in 1 .. B |-> <<"depth", s, d, r>>],
     target |-> [r \in 1 .. B |-> <<"target", s, d, r>>]]

\* self.all_gather(outputs): every tensor gets a leading device dimension
all_gather(outs) ==
    [s \in 1 .. Len(outs[1]) |->
        [rgb |-> [d \in 1 .. Len(outs) |-> outs[d][s].rgb],
         depth |-> [d \in 1 .. Len(outs) |-> outs[d][s].depth],
         target |-> [d \in 1 .. Len(outs) |-> outs[d][s].target]]]

\* the first rows of t, without its last k rows: t[:-k] for k > 0
DropLast(t, k) == SubSeq(t, 1, Len(t) - k)

\* a variant that trims the rows at the front
gather_resultsFront(outs, dummy_num) ==
    LET outputs_gather == all_gather(outs)
        rgbs == Concat([s \in 1 .. Len(outputs_gather) |-> Concat(outputs_gather[s].rgb)])
        target == Concat([s \in 1 .. Len(outputs_gather) |-> Concat(outputs_gather[s].target)])
        depths == Concat([s \in 1 .. Len(outputs_gather) |-> Concat(outputs_gather[s].depth)])
    IN  IF dummy_num # 0
        THEN [rgbs |-> SubSeq(rgbs, dummy_num + 1, Len(rgbs)),
              target |-> SubSeq(target, dummy_num + 1, Len(target)),
              depths |-> SubSeq(depths, dummy_num + 1, Len(depths))]
        ELSE [rgbs |-> rgbs, target |-> target, depths |-> depths]

gather_results(outs, dummy_num) ==
    LET outputs_gather == all_gather(outs)
        rgbs == Concat([s \in 1 .. Len(outputs_gather) |-> Concat(outputs_gather[s].rgb)])
        target == Concat([s \in 1 .. Len(outputs_gather) |-> Concat(outputs_gather[s].target)])
        depths == Concat([s \in 1 .. Len(outputs_gather) |-> Concat(outputs_gather[s].depth)])
    IN  IF dummy_num # 0
        THEN [rgbs |-> DropLast(rgbs, dummy_num), target |-> DropLast(target, dummy_num),
              depths |-> DropLast(depths, dummy_num)]
        ELSE [rgbs |-> rgbs, target |-> target, depths |-> depths]

\* rows gathered in the running epoch
TotalRows == Len(Concat([s \in 1 .. Len(outputs[1]) |->
                         Concat([d \in 1 .. world_size |-> outputs[d][s].rgb])]))

GatherInit ==
    /\ NetIdle
    /\ LifeIdle
    /\ world_size \in 1 .. MaxDevices
    /\ outputs = [d \in 1 .. world_size |-> <<>>]
    /\ result = None

\* validation_step / test_step on every device, for shards of equal size
EvalStep ==
    /\ result = None
    /\ Len(outputs[1]) < MaxGatherSteps
    /\ \E B \in 1 .. MaxRows :
        outputs' = [d \in 1 .. world_size |->
                        Append(outputs[d], ShardOutput(Len(outputs[d]) + 1, d, B))]
    /\ UNCHANGED <<netVars, lifeVars, world_size, result>>

\* validation_epoch_end / test_epoch_end: the dummy count is the number of
\* padding rows the dataloader appended, which are among the gathered rows
EpochEnd ==
    /\ result = None
    /\ Len(outputs[1]) > 0
    /\ \E dummy_num \in 0 .. TotalRows :
        result' = [dummy_num |-> dummy_num, total |-> TotalRows,
                   ret |-> gather_results(outputs, dummy_num)]
    /\ UNCHANGED <<netVars, lifeVars, world_size, outputs>>

\* the trainer starts the next evaluation epoch with no outputs
NextEpoch ==
    /\ result # None
    /\ outputs' = [d \in 1 .. world_size |-> <<>>]
    /\ result' = None
    /\ UNCHANGED <<netVars, lifeVars, world_size>>

GatherNext == EvalStep \/ EpochEnd \/ NextEpoch

GatherSpec == GatherInit /\ [][GatherNext]_vars

----------------------------------------------------------------------------
(* Claims about gather_results, checked under GatherSpec. *)

\* row a comes before row b: earlier step, or same step and lower device,
\* or same shard and lower index
Before(a, b) ==
    \/ a[2] < b[2]
    \/ a[2] = b[2] /\ a[3] < b[3]
    \/ a[2] = b[2] /\ a[3] = b[3] /\ a[4] < b[4]

\* the (step, device, index) of every row the devices hold
AllKeys ==
    {k \in (1 .. Len(outputs[1])) \X (1 .. world_size) \X (1 .. MaxRows) :
        k[3] <= Len(outputs[k[2]][k[1]].rgb)}

Key(row) == <<row[2], row[3], row[4]>>

KeyBefore(a, b) == Before(<<"k">> \o a, <<"k">> \o b)

\* C3: gather_results returns total - dummy_num rows per output; the rows are
\* in step order and within a step in device order; the rows left out are
\* the last dummy_num of that order; rgb, target and depth stay aligned row
\* by row; and dummy_num = 0 leaves no row out.
C3_GatherTrimsTrailingDummies ==
    result # None =>
        LET rgbs == result.ret.rgbs
            target == result.ret.target
            depths == result.ret.depths
            n == result.total - result.dummy_num
            kept == {Key(rgbs[p]) : p \in 1 .. Len(rgbs)}
        IN  /\ result.total = Cardinality(AllKeys)
            /\ Len(rgbs) = n /\ Len(target) = n /\ Len(depths) = n
            /\ \A p \in 1 .. n :
                /\ rgbs[p][1] = "rgb" /\ target[p][1] = "target" /\ depths[p][1] = "depth"
                /\ Key(target[p]) = Key(rgbs[p])
                /\ Key(depths[p]) = Key(rgbs[p])
            /\ \A p, q \in 1 .. n : p < q => Before(rgbs[p], rgbs[q])
            /\ kept \subseteq AllKeys
            /\ \A a \in AllKeys \ kept : \A b \in kept : KeyBefore(b, a)
            /\ result.dummy_num = 0 => kept = AllKeys

\* C3 witness: several devices and steps were gathered and some, not all, of
\* the rows were trimmed as padding.
C3_Witness ==
    /\ result # None
    /\ world_size > 1
    /\ Len(outputs[1]) > 1
    /\ result.dummy_num > 0
    /\ Len(result.ret.rgbs) > result.dummy_num

====
